---- MODULE Spec2Model ----
(***************************************************************************)
(* Model of sentiment_analyzer.py: module initialisation, the classifier   *)
(* analyze_news_item_sentiment and its helper get_openai_sentiment, with   *)
(* the remote chat-completion call as the environment.                     *)
(*                                                                         *)
(* Python str values are TLA+ strings; Len, \o and SubSeq act on them      *)
(* character by character, so strip(), lower(), isspace(), slicing and the *)
(* substring test are computed the way the code computes them.             *)
(***************************************************************************)
EXTENDS Integers, Sequences, FiniteSets, TLC

VARIABLES cred, pc, exc, news_data, text_content, calls, outcome, result

vars == <<cred, pc, exc, news_data, text_content, calls, outcome, result>>

---------------------------------------------------------------------------
(* Bounds *)

\* a remote reply is the concatenation of at most MaxPieces pieces
MaxPieces == 2

---------------------------------------------------------------------------
(* Python str primitives *)

Char(s, i) == SubSeq(s, i, i)

Whitespace == {" ", "\n", "\t"}

UpperCase == "ABCDEFGHIJKLMNOPQRSTUVWXYZ"

LowerCase == "abcdefghijklmnopqrstuvwxyz"

LowerChar(c) ==
    IF \E i \in 1..Len(UpperCase) : Char(UpperCase, i) = c
    THEN Char(LowerCase, CHOOSE i \in 1..Len(UpperCase) : Char(UpperCase, i) = c)
    ELSE c

RECURSIVE lower(_)
\* str.lower()
lower(s) == IF s = "" THEN "" ELSE LowerChar(Char(s, 1)) \o lower(SubSeq(s, 2, Len(s)))

RECURSIVE lstrip(_)
lstrip(s) ==
    IF s # "" /\ Char(s, 1) \in Whitespace THEN lstrip(SubSeq(s, 2, Len(s))) ELSE s

RECURSIVE rstrip(_)
rstrip(s) ==
    IF s # "" /\ Char(s, Len(s)) \in Whitespace THEN rstrip(SubSeq(s, 1, Len(s) - 1)) ELSE s

\* str.strip()
strip(s) == rstrip(lstrip(s))

\* str.isspace(): at least one character and all of them whitespace
isspace(s) == s # "" /\ \A i \in 1..Len(s) : Char(s, i) \in Whitespace

\* the Python test  sub in s
contains(sub, s) ==
    \E i \in 1..(Len(s) - Len(sub) + 1) : SubSeq(s, i, i + Len(sub) - 1) = sub

\* s[:n]
prefix(s, n) == SubSeq(s, 1, IF Len(s) < n THEN Len(s) ELSE n)

RECURSIVE join(_, _)
\* sep.join(parts)
join(sep, parts) ==
    IF Len(parts) = 0 THEN ""
    ELSE IF Len(parts) = 1 THEN parts[1]
    ELSE parts[1] \o sep \o join(sep, Tail(parts))

RECURSIVE repeat(_, _)
\* c * n
repeat(c, n) ==
    IF n = 0 THEN ""
    ELSE LET h == repeat(c, n \div 2)
         IN  h \o h \o (IF n % 2 = 1 THEN c ELSE "")

---------------------------------------------------------------------------
(* Inputs *)

\* max_desc_chars of analyze_news_item_sentiment
max_desc_chars == 3000

\* values of news_data["Headline"]: empty, whitespace-only, text
Headlines == {"", " ", "Crash closes lanes"}

\* values of news_data["Description"]: empty, whitespace-only, text, text of
\* exactly max_desc_chars characters, text one character longer
Descriptions ==
    {"", " \n", "All lanes are blocked", repeat("a", max_desc_chars),
     repeat("a", max_desc_chars + 1)}

Keys == {"Headline", "Description"}

\* a dict holding any subset of the recognised keys
Dicts ==
    {[type |-> "dict", items |-> f] :
        f \in UNION {[D -> Headlines \cup Descriptions] : D \in SUBSET Keys}}

DictInputs ==
    {d \in Dicts :
        /\ "Headline" \in DOMAIN d.items => d.items["Headline"] \in Headlines
        /\ "Description" \in DOMAIN d.items => d.items["Description"] \in Descriptions}

\* values that are not a dict: None, a str
NonDictInputs == {[type |-> "NoneType", items |-> <<>>], [type |-> "str", items |-> <<>>]}

Inputs == DictInputs \cup NonDictInputs

\* no invocation in progress
NoInput == [type |-> "none", items |-> <<>>]

\* isinstance(news_data, dict)
isinstance_dict(v) == v.type = "dict"

\* dict.get(key, default)
get(d, key, default) == IF key \in DOMAIN d.items THEN d.items[key] ELSE default

---------------------------------------------------------------------------
(* Remote behaviour *)

Pieces ==
    {"", " ", "\n", ".", "positive", "Positive", "negative", "NEGATIVE",
     "neutral", "Neutral", "mixed", "I think this is negative overall"}

RECURSIVE concat(_)
concat(ps) == IF Len(ps) = 0 THEN "" ELSE Head(ps) \o concat(Tail(ps))

\* the reply texts the remote model may produce
Replies == {concat(ps) : ps \in [1..MaxPieces -> Pieces]}

\* message.content is a str, or None when the completion was refused or blocked
Messages ==
    {[hasContent |-> TRUE, content |-> t] : t \in Replies}
        \cup {[hasContent |-> FALSE, content |-> ""]}

\* a completion carries a list of choices, possibly empty
Completions == {[choices |-> <<m>>] : m \in Messages} \cup {[choices |-> <<>>]}

\* failures client.chat.completions.create may raise
Failures == {"AuthenticationError", "APIConnectionError", "RateLimitError", "Exception"}

NoOutcome == [kind |-> "none", text |-> ""]

Sentiments == {"positive", "negative", "neutral", "error"}

NoResult == "<none>"

---------------------------------------------------------------------------
(* get_openai_sentiment *)

\* the guard before the remote call: empty or whitespace-only text is not sent
EmptyContent(text) == text = "" \/ isspace(text)

\* variant: the reply is trimmed but its case is kept
normalize_keepcase(content) == strip(content)

\* completion.choices[0].message.content.strip().lower()
normalize(content) == lower(strip(content))

\* variant: an unexpected reply is handed back as it is
ParseSentiment_verbatim(sentiment) ==
    IF sentiment \in {"positive", "negative"} THEN sentiment
    ELSE IF contains("positive", sentiment) THEN "positive"
    ELSE IF contains("negative", sentiment) THEN "negative"
    ELSE sentiment

\* variant: an unexpected reply without a label in it is reported as a failure
ParseSentiment_strict(sentiment) ==
    IF sentiment \in {"positive", "negative"} THEN sentiment
    ELSE IF contains("positive", sentiment) THEN "positive"
    ELSE IF contains("negative", sentiment) THEN "negative"
    ELSE "error"

\* variant: the two substring guards in the other order
ParseSentiment_negfirst(sentiment) ==
    IF sentiment \in {"positive", "negative"} THEN sentiment
    ELSE IF contains("negative", sentiment) THEN "negative"
    ELSE IF contains("positive", sentiment) THEN "positive"
    ELSE "neutral"

\* the label chosen from the normalised reply
ParseSentiment(sentiment) ==
    IF sentiment \in {"positive", "negative"} THEN sentiment
    ELSE IF contains("positive", sentiment) THEN "positive"
    ELSE IF contains("negative", sentiment) THEN "negative"
    ELSE "neutral"

\* variant: a failed call falls back to neutral
ExceptHandler_neutral(e) == "neutral"

\* the except clause: any Exception raised inside the try block
ExceptHandler(e) == "error"

\* the body of the try block once create() has returned: an empty choices
\* list raises IndexError, a None content raises AttributeError
HandleCompletion(completion) ==
    IF Len(completion.choices) = 0 THEN ExceptHandler("IndexError")
    ELSE IF ~completion.choices[1].hasContent THEN ExceptHandler("AttributeError")
    ELSE ParseSentiment(normalize(completion.choices[1].content))

\* what the completion carried, as seen from outside
CompletionOutcome(completion) ==
    IF Len(completion.choices) = 0 \/ ~completion.choices[1].hasContent
    THEN [kind |-> "notext", text |-> ""]
    ELSE [kind |-> "text", text |-> completion.choices[1].content]

---------------------------------------------------------------------------
(* analyze_news_item_sentiment *)

\* Python truthiness of a str
truthy(s) == s # ""

\* description[:max_desc_chars], with "..." appended when it was longer
truncated_description(description) ==
    IF Len(description) > max_desc_chars
    THEN prefix(description, max_desc_chars) \o "..."
    ELSE prefix(description, max_desc_chars)

HeadlinePart(headline) ==
    IF truthy(headline) THEN <<"Headline: " \o headline>> ELSE <<>>

DescriptionPart(description) ==
    IF truthy(description)
    THEN <<"Description: " \o truncated_description(description)>>
    ELSE <<>>

\* variant: the description is appended before the headline
text_for_analysis_swapped(headline, description) ==
    DescriptionPart(description) \o HeadlinePart(headline)

\* the list text_for_analysis
text_for_analysis(headline, description) ==
    HeadlinePart(headline) \o DescriptionPart(description)

combined_text(parts) == join("\n\n", parts)

---------------------------------------------------------------------------
(* Module initialisation *)

\* os.getenv("OPENAI_API_KEY"): None, "", a key the service rejects, a good key
Credentials == {"missing", "empty", "invalid", "valid"}

\* os.environ[...] = None raises TypeError
AssignRaises(c) == c = "missing"

\* variant: only an absent variable counts as unset
KeyUnset_noneonly(c) == c = "missing"

\* not os.getenv("OPENAI_API_KEY")
KeyUnset(c) == c \in {"missing", "empty"}

Init ==
    /\ cred \in Credentials
    /\ pc = "load"
    /\ exc = "none"
    /\ news_data = NoInput
    /\ text_content = ""
    /\ calls = 0
    /\ outcome = NoOutcome
    /\ result = NoResult

\* the module body fails: the assignment raises, or exit() is called
LoadModuleFail ==
    /\ pc = "load"
    /\ AssignRaises(cred) \/ KeyUnset(cred)
    /\ pc' = "exited"
    /\ exc' = IF AssignRaises(cred) THEN "TypeError" ELSE "SystemExit"
    /\ UNCHANGED <<cred, news_data, text_content, calls, outcome, result>>

\* the module body runs to the end: client = OpenAI()
LoadModuleOk ==
    /\ pc = "load"
    /\ ~AssignRaises(cred)
    /\ ~KeyUnset(cred)
    /\ pc' = "idle"
    /\ UNCHANGED <<cred, exc, news_data, text_content, calls, outcome, result>>

---------------------------------------------------------------------------
(* One invocation *)

\* analyze_news_item_sentiment(nd) up to its return or to the remote call
Analyze(nd) ==
    /\ pc = "idle"
    /\ news_data' = nd
    /\ outcome' = NoOutcome
    /\ IF ~isinstance_dict(nd)
       THEN /\ result' = "error"
            /\ pc' = "done"
            /\ UNCHANGED <<text_content, calls>>
       ELSE LET headline == get(nd, "Headline", "")
                description == get(nd, "Description", "")
                parts == text_for_analysis(headline, description)
            IN  IF Len(parts) = 0
                THEN /\ result' = "neutral"
                     /\ pc' = "done"
                     /\ UNCHANGED <<text_content, calls>>
                ELSE IF EmptyContent(combined_text(parts))
                THEN /\ result' = "neutral"
                     /\ pc' = "done"
                     /\ UNCHANGED <<text_content, calls>>
                ELSE /\ text_content' = combined_text(parts)
                     /\ calls' = calls + 1
                     /\ pc' = "called"
                     /\ UNCHANGED result
    /\ UNCHANGED <<cred, exc>>

\* client.chat.completions.create returns a completion; the service answers
\* only a key it accepts, a rejected key makes create() raise
RemoteReturn(completion) ==
    /\ pc = "called"
    /\ cred = "valid"
    /\ outcome' = CompletionOutcome(completion)
    /\ result' = HandleCompletion(completion)
    /\ pc' = "done"
    /\ UNCHANGED <<cred, exc, news_data, text_content, calls>>

\* variant: a failed call is attempted once more
RemoteRaise_retry(e) ==
    /\ pc = "called"
    /\ IF calls < 2
       THEN /\ calls' = calls + 1
            /\ UNCHANGED <<pc, outcome, result>>
       ELSE /\ outcome' = [kind |-> "raise", text |-> e]
            /\ result' = ExceptHandler(e)
            /\ pc' = "done"
            /\ UNCHANGED calls
    /\ UNCHANGED <<cred, exc, news_data, text_content>>

\* client.chat.completions.create raises
RemoteRaise(e) ==
    /\ pc = "called"
    /\ outcome' = [kind |-> "raise", text |-> e]
    /\ result' = ExceptHandler(e)
    /\ pc' = "done"
    /\ UNCHANGED <<cred, exc, news_data, text_content, calls>>

\* the caller takes the returned value and goes on to the next item
Return ==
    /\ pc = "done"
    /\ pc' = "idle"
    /\ news_data' = NoInput
    /\ text_content' = ""
    /\ calls' = 0
    /\ outcome' = NoOutcome
    /\ result' = NoResult
    /\ UNCHANGED <<cred, exc>>

Next ==
    \/ LoadModuleFail
    \/ LoadModuleOk
    \/ \E nd \in Inputs : Analyze(nd)
    \/ \E completion \in Completions : RemoteReturn(completion)
    \/ \E e \in Failures : RemoteRaise(e)
    \/ Return

Spec == Init /\ [][Next]_vars

---------------------------------------------------------------------------
(* Properties *)

\* the invocation in progress was given a dict
GivenDict == isinstance_dict(news_data)

\* the two fields analyze_news_item_sentiment reads
GivenHeadline == get(news_data, "Headline", "")

GivenDescription == get(news_data, "Description", "")

\* empty or nothing but whitespace
Blank(s) == s = "" \/ \A i \in 1..Len(s) : Char(s, i) \in {" ", "\n", "\t"}

\* the reply text after trimming and lowercasing
Normalized == lower(strip(outcome.text))

\* C1: every finished call has returned exactly one value, one of positive,
\* negative, neutral, error, and no exception has left the classifier; the
\* value is never free text of the reply.
C1_ReturnsOneSentiment ==
    /\ pc = "done" => (result \in Sentiments /\ exc = "none")
    /\ pc \in {"idle", "called"} => (result = NoResult /\ exc = "none")

\* C1 witness: a reply of free text has been mapped to a label.
C1_Witness ==
    /\ pc = "done"
    /\ outcome.kind = "text"
    /\ outcome.text = "mixed."
    /\ result = "neutral"

\* C2 (as stated): with a headline and a description that are both empty or
\* whitespace-only, the call makes no remote call and returns neutral.
C2_BlankInputNoCall ==
    (pc \in {"called", "done"} /\ GivenDict
        /\ Blank(GivenHeadline) /\ Blank(GivenDescription))
    => (calls = 0 /\ (pc = "done" => result = "neutral"))

\* C3 (as stated): with a missing or invalid credential every call returns
\* error and attempts no remote call.
C3_UnconfiguredReturnsError ==
    (cred # "valid" /\ pc \in {"called", "done"})
    => (calls = 0 /\ (pc = "done" => result = "error"))

\* C3 (amended): with a missing or empty credential the module body ends the
\* process, so no call is ever started and no remote call attempted; with a
\* present but invalid credential a call for an item with content makes its
\* one remote call, which raises, and returns error.
C3_UnsetExitsInvalidRaises ==
    /\ cred \in {"missing", "empty"}
        => (pc \in {"load", "exited"} /\ calls = 0 /\ result = NoResult)
    /\ (cred = "invalid" /\ pc = "done" /\ GivenDict
            /\ (GivenHeadline # "" \/ GivenDescription # ""))
        => (calls = 1 /\ outcome.kind = "raise" /\ result = "error")

\* C3 witness: a call under an invalid credential has ended in error after
\* its remote call.
C3_Witness ==
    /\ cred = "invalid"
    /\ pc = "done"
    /\ calls = 1
    /\ result = "error"

\* C4 (as stated): a completion that carries no text, or only whitespace,
\* yields neutral and never error.
C4_NoTextIsNeutral ==
    (pc = "done"
        /\ (outcome.kind = "notext" \/ (outcome.kind = "text" /\ Blank(outcome.text))))
    => result = "neutral"

\* C5: when the remote call raises, the call returns error and no exception
\* leaves the classifier.
C5_RaiseIsError ==
    (pc = "done" /\ outcome.kind = "raise") => (result = "error" /\ exc = "none")

\* C5 witness: a quota failure under a valid credential has been turned
\* into error.
C5_Witness ==
    /\ pc = "done"
    /\ cred = "valid"
    /\ outcome = [kind |-> "raise", text |-> "RateLimitError"]
    /\ result = "error"

\* C6 (as stated): error is returned only when the remote call raised (the
\* unconfigured case never reaches a call).
C6_ErrorOnlyOnRaise ==
    (pc = "done" /\ result = "error") => outcome.kind = "raise"

\* C6 (amended): error is returned exactly when the input is not a dict, the
\* remote call raised, or the completion carried no text to read; every other
\* call returns positive, negative or neutral.
C6_ErrorSources ==
    pc = "done"
    => /\ result = "error" <=> (~GivenDict \/ outcome.kind \in {"raise", "notext"})
       /\ result # "error" => result \in {"positive", "negative", "neutral"}

\* C6 witness: a value that is not a dict has been answered with error
\* without a remote call.
C6_Witness ==
    /\ pc = "done"
    /\ ~GivenDict
    /\ calls = 0
    /\ result = "error"

\* C7: a reply that is exactly a label after trimming and lowercasing yields
\* that label.
C7_ExactLabel ==
    (pc = "done" /\ outcome.kind = "text"
        /\ Normalized \in {"positive", "negative", "neutral"})
    => result = Normalized

\* C7 witness: "Positive " has been classified as positive.
C7_Witness ==
    /\ pc = "done"
    /\ outcome.kind = "text"
    /\ outcome.text = "Positive "
    /\ result = "positive"

\* C8: a non-empty reply that is not exactly a label yields positive if it
\* contains "positive", else negative if it contains "negative", else neutral.
C8_SubstringFallback ==
    (pc = "done" /\ outcome.kind = "text" /\ outcome.text # ""
        /\ Normalized \notin {"positive", "negative", "neutral"})
    => /\ result = IF contains("positive", Normalized) THEN "positive"
                   ELSE IF contains("negative", Normalized) THEN "negative"
                   ELSE "neutral"
       /\ outcome.text = "I think this is negative overall" => result = "negative"

\* C8 witness: a reply holding both substrings has been classified as positive.
C8_Witness ==
    /\ pc = "done"
    /\ outcome.kind = "text"
    /\ outcome.text = "NEGATIVEpositive"
    /\ result = "positive"

\* C9: an invocation makes at most one remote call; once the attempt returns
\* or raises the invocation finishes without another call.
C9_SingleAttempt ==
    [][/\ calls' <= 1
       /\ pc = "called" => (pc' = "done" /\ calls' = calls)]_vars

\* C9 witness: an invocation has finished after one attempt that raised.
C9_Witness ==
    /\ pc = "done"
    /\ calls = 1
    /\ outcome = [kind |-> "raise", text |-> "APIConnectionError"]

\* the content block as C10 states it
ClaimedContent(title, description) ==
    IF description # "" /\ title # ""
    THEN "Description: " \o description \o "\n" \o "Title: " \o title
    ELSE IF description # "" THEN "Description: " \o description
    ELSE "Title: " \o title

\* C10 (as stated): the text sent is the description line followed by the
\* title line.
C10_DescriptionThenTitle ==
    calls = 1 => text_content = ClaimedContent(GivenHeadline, GivenDescription)

\* C10 (amended): the text sent is "Headline: {headline}" if the headline is
\* non-empty, then "Description: {description}" if the description is
\* non-empty, the description cut to its first 3000 characters with "..."
\* appended when it was longer; the two parts are separated by a blank line,
\* headline first.
C10_HeadlineThenDescription ==
    calls = 1
    => LET h == GivenHeadline
           d == GivenDescription
           hl == "Headline: " \o h
           dl == "Description: "
                    \o (IF Len(d) > 3000 THEN SubSeq(d, 1, 3000) \o "..." ELSE d)
       IN  text_content = IF h # "" /\ d # "" THEN hl \o "\n\n" \o dl
                          ELSE IF h # "" THEN hl
                          ELSE dl

\* C10 witness: an item with a headline and an over-long description has
\* been sent.
C10_Witness ==
    /\ calls = 1
    /\ GivenHeadline = "Crash closes lanes"
    /\ Len(GivenDescription) > 3000
    /\ Len(text_content) = Len("Headline: Crash closes lanes") + 2 + Len("Description: ") + 3003

====
